---- MODULE Spec2Model ----
(***************************************************************************)
(* Task Manager (src/task_manager.py): the SQLite-backed record store, its *)
(* query and CSV export functions, and the "Add Task" dialog path.         *)
(*                                                                         *)
(* Text values are sequences of one-character strings, so that LIKE        *)
(* matching, BINARY collation, str.strip, str.upper and the csv writer are *)
(* computed character by character.                                        *)
(*                                                                         *)
(* Three specifications share the actions:                                 *)
(*   Spec       calls following one another from the empty table, on       *)
(*              storage that works;                                        *)
(*   CallSpec   one call of any function on any table of at most MaxRows   *)
(*              rows, with any storage outcome;                            *)
(*   QuerySpec  one query or export on any such table, with any filter,    *)
(*              sort column and sort order.                                *)
(***************************************************************************)
EXTENDS Integers, Sequences, FiniteSets, TLC

VARIABLES tasks,    \* the rows of table tasks
          seq,      \* sqlite_sequence: the largest rowid ever assigned
          last,     \* the call that has just returned or raised
          history   \* the ids assigned by inserts, in order, and the ids removed

vars == <<tasks, seq, last, history>>

(* ------------------------------ bounds -------------------------------- *)

\* Largest id the AUTOINCREMENT counter may hand out where calls follow one
\* another.
MaxSeq == 2

\* Most rows of a table a single call is made on.
MaxRows == 2

(* ----------------------------- characters ----------------------------- *)

LowerLetters == <<"a","b","c","d","e","f","g","h","i","j","k","l","m",
                  "n","o","p","q","r","s","t","u","v","w","x","y","z">>
UpperLetters == <<"A","B","C","D","E","F","G","H","I","J","K","L","M",
                  "N","O","P","Q","R","S","T","U","V","W","X","Y","Z">>
Digits == <<"0","1","2","3","4","5","6","7","8","9">>

IndexIn(c, s) == IF \E i \in DOMAIN s : s[i] = c
                 THEN CHOOSE i \in DOMAIN s : s[i] = c
                 ELSE 0

IsLower(c) == IndexIn(c, LowerLetters) > 0
IsUpper(c) == IndexIn(c, UpperLetters) > 0
IsDigit(c) == IndexIn(c, Digits) > 0

\* U+017F LATIN SMALL LETTER LONG S, written "long-s" here.
LongS == "long-s"

\* Code point of a character (the first byte of its UTF-8 encoding for the
\* one non-ASCII character), which is what SQLite's BINARY collation compares.
CodePoint(c) ==
    CASE IsLower(c) -> 96 + IndexIn(c, LowerLetters)
      [] IsUpper(c) -> 64 + IndexIn(c, UpperLetters)
      [] IsDigit(c) -> 47 + IndexIn(c, Digits)
      [] c = "\n" -> 10
      [] c = "\r" -> 13
      [] c = " " -> 32
      [] c = "\"" -> 34
      [] c = "%" -> 37
      [] c = "," -> 44
      [] c = "-" -> 45
      [] c = ":" -> 58
      [] c = "_" -> 95
      [] c = LongS -> 197

\* SQLite folds case for the 26 ASCII letters only.
SqliteUpperChar(c) == IF IsLower(c) THEN UpperLetters[IndexIn(c, LowerLetters)] ELSE c

\* Python's str.upper also maps U+017F to "S".
PyUpperChar(c) == IF c = LongS THEN "S" ELSE SqliteUpperChar(c)

PyUpper(s) == [i \in DOMAIN s |-> PyUpperChar(s[i])]
SqliteUpper(s) == [i \in DOMAIN s |-> SqliteUpperChar(s[i])]

\* memcmp order of two texts (BINARY collation).
RECURSIVE TextLess(_, _)
TextLess(a, b) ==
    IF b = <<>> THEN FALSE
    ELSE IF a = <<>> THEN TRUE
    ELSE IF a[1] # b[1] THEN CodePoint(a[1]) < CodePoint(b[1])
    ELSE TextLess(Tail(a), Tail(b))

\* Python's str.strip() for the whitespace characters of the model.
IsSpace(c) == c \in {" ", "\n", "\r"}

RECURSIVE LStrip(_)
LStrip(s) == IF s # <<>> /\ IsSpace(s[1]) THEN LStrip(Tail(s)) ELSE s

RECURSIVE RStrip(_)
RStrip(s) == IF s # <<>> /\ IsSpace(s[Len(s)])
             THEN RStrip(SubSeq(s, 1, Len(s) - 1)) ELSE s

Strip(s) == RStrip(LStrip(s))

\* str(n) for a non-negative integer.
RECURSIVE IntToText(_)
IntToText(n) == IF n < 10 THEN <<Digits[n + 1]>>
                ELSE IntToText(n \div 10) \o <<Digits[(n % 10) + 1]>>

(* ------------------------------- values ------------------------------- *)

Low == <<"L","o","w">>
Medium == <<"M","e","d","i","u","m">>
High == <<"H","i","g","h">>

\* The values offered by the dialog's read-only priority combobox.
Priorities == {Low, Medium, High}

Date1 == <<"2","0","2","5","-","0","1","-","0","1">>

\* Argument tuples the record-store functions are called with.
TaskInputs ==
    { [title |-> <<"A","b">>, description |-> <<>>, due_date |-> <<>>,
       priority |-> Low],
      [title |-> <<"c">>, description |-> <<"x",",","\"","\n","b">>,
       due_date |-> Date1, priority |-> High],
      [title |-> <<>>, description |-> <<"a","x","b">>, due_date |-> <<>>,
       priority |-> Medium] }

\* Values passed as `completed` (a bool from toggle_complete, the IntVar's
\* integer from the dialog, or any other truthy integer).
CompletedInputs == {0, 1, 2}

\* Readings of datetime.utcnow().isoformat().
Instant1 == Date1 \o <<"T","0","9",":","0","0",":","0","0">>
Instant2 == Date1 \o <<"T","0","9",":","0","0",":","0","1">>
Instants == {Instant1, Instant2}

\* Outcome of the storage layer for one call: it works, sqlite3.connect
\* raises, or the statement (execute/commit) raises.
Faults == {"none", "connect", "execute"}

(* ---------------------------- SQL statements -------------------------- *)

MaxOf(S) == IF S = {} THEN 0 ELSE CHOOSE m \in S : \A x \in S : x <= m

Ids(ts) == {r.id : r \in ts}

\* Variant: a key declared without AUTOINCREMENT takes one more than the
\* largest rowid currently in the table.
NextRowidWithoutAutoincrement(ts, sq) == MaxOf(Ids(ts)) + 1

\* INTEGER PRIMARY KEY AUTOINCREMENT: one more than the largest rowid that
\* has ever been in the table (kept in sqlite_sequence).
NextRowid(ts, sq) == MaxOf(Ids(ts) \cup {sq}) + 1

\* INSERT INTO tasks (...) VALUES (?, ?, ?, ?, 0, ?)
InsertRow(ts, sq, in, now) ==
    ts \cup { [id |-> NextRowid(ts, sq), title |-> in.title,
               description |-> in.description, due_date |-> in.due_date,
               priority |-> in.priority, completed |-> 0,
               created_at |-> now] }

\* int(bool(completed))
IntBool(c) == IF c = 0 THEN 0 ELSE 1

\* Variant: completed bound as passed, without int(bool(...)).
UpdateRowsRawCompleted(ts, id, in, completed) ==
    { IF r.id = id
      THEN [r EXCEPT !.title = in.title, !.description = in.description,
                     !.due_date = in.due_date, !.priority = in.priority,
                     !.completed = completed]
      ELSE r : r \in ts }

\* Variant: the UPDATE without its WHERE clause.
UpdateRowsAllRows(ts, id, in, completed) ==
    { [r EXCEPT !.title = in.title, !.description = in.description,
                !.due_date = in.due_date, !.priority = in.priority,
                !.completed = IntBool(completed)] : r \in ts }

\* Variant: INSERT OR REPLACE in place of UPDATE, which creates the row
\* when no row has the id.
UpdateRowsUpsert(ts, id, in, completed) ==
    { r \in ts : r.id # id } \cup
    { [id |-> id, title |-> in.title, description |-> in.description,
       due_date |-> in.due_date, priority |-> in.priority,
       completed |-> IntBool(completed),
       created_at |-> IF \E r \in ts : r.id = id
                      THEN (CHOOSE r \in ts : r.id = id).created_at
                      ELSE <<>>] }

\* UPDATE tasks SET title=?, description=?, due_date=?, priority=?,
\* completed=? WHERE id=?
UpdateRows(ts, id, in, completed) ==
    { IF r.id = id
      THEN [r EXCEPT !.title = in.title, !.description = in.description,
                     !.due_date = in.due_date, !.priority = in.priority,
                     !.completed = IntBool(completed)]
      ELSE r : r \in ts }

\* DELETE FROM tasks WHERE id=?
DeleteRows(ts, id) == { r \in ts : r.id # id }

\* DELETE FROM tasks WHERE completed=1
DeleteCompleted(ts) == { r \in ts : r.completed # 1 }

(* -------------------------------- LIKE -------------------------------- *)

\* SQLite's LIKE without an ESCAPE clause: "%" matches any run of
\* characters, "_" matches exactly one, anything else matches itself up to
\* ASCII case.
RECURSIVE Like(_, _)
Like(p, s) ==
    IF p = <<>> THEN s = <<>>
    ELSE IF p[1] = "%" THEN Like(Tail(p), s) \/ (s # <<>> /\ Like(p, Tail(s)))
    ELSE IF s = <<>> THEN FALSE
    ELSE IF p[1] = "_" THEN Like(Tail(p), Tail(s))
    ELSE SqliteUpperChar(p[1]) = SqliteUpperChar(s[1]) /\ Like(Tail(p), Tail(s))

\* ft = f"%{filter_text}%"
LikePattern(filter_text) == <<"%">> \o filter_text \o <<"%">>

\* The WHERE clause of fetch_tasks_db; no clause for a falsy filter_text.
Selected(ts, filter_text) ==
    IF filter_text = <<>> THEN ts
    ELSE { r \in ts : \/ Like(LikePattern(filter_text), r.title)
                       \/ Like(LikePattern(filter_text), r.description) }

(* ------------------------------ ORDER BY ------------------------------ *)

ASC == <<"A","S","C">>
DESC == <<"D","E","S","C">>

Allowed == {"id", "title", "description", "due_date", "priority",
            "completed", "created_at"}

\* Variant: the column name used as given.
SortColumnUnchecked(sort_by) == sort_by

\* if sort_by not in allowed: sort_by = "id"
SortColumn(sort_by) == IF sort_by \notin Allowed THEN "id" ELSE sort_by

\* if order.upper() not in ("ASC","DESC"): order = "ASC"
OrderToken(order) == IF PyUpper(order) \notin {ASC, DESC} THEN ASC ELSE order

\* The statement is accepted when the column is one of the table and the
\* text after it is the keyword ASC or DESC, which SQLite recognises in any
\* ASCII letter case.
OrderParses(col, token) == col \in Allowed /\ SqliteUpper(token) \in {ASC, DESC}

\* Column comparison: integers numerically, TEXT under BINARY collation.
ColumnLess(col, r1, r2) ==
    CASE col = "id" -> r1.id < r2.id
      [] col = "completed" -> r1.completed < r2.completed
      [] col = "title" -> TextLess(r1.title, r2.title)
      [] col = "description" -> TextLess(r1.description, r2.description)
      [] col = "due_date" -> TextLess(r1.due_date, r2.due_date)
      [] col = "priority" -> TextLess(r1.priority, r2.priority)
      [] col = "created_at" -> TextLess(r1.created_at, r2.created_at)
      [] OTHER -> FALSE

Perms(S) == { s \in [1..Cardinality(S) -> S] :
                \A i, j \in 1..Cardinality(S) : i # j => s[i] # s[j] }

\* Every row sequence ORDER BY col token may produce (rows with equal keys
\* come in an order SQLite does not specify).
Ordered(S, col, token) ==
    { s \in Perms(S) :
        \A i, j \in DOMAIN s : i < j =>
            IF SqliteUpper(token) = DESC
            THEN ~ColumnLess(col, s[i], s[j])
            ELSE ~ColumnLess(col, s[j], s[i]) }

(* ----------------------------- csv.writer ------------------------------ *)

\* QUOTE_MINIMAL: a field is quoted when it holds the delimiter, the quote
\* character or a line-terminator character.
NeedsQuote(f) == \E i \in DOMAIN f : f[i] \in {",", "\"", "\r", "\n"}

\* doublequote=True: a quote character inside a quoted field is written twice.
RECURSIVE DoubleQuotes(_)
DoubleQuotes(f) ==
    IF f = <<>> THEN <<>>
    ELSE (IF f[1] = "\"" THEN <<"\"", "\"">> ELSE <<f[1]>>) \o DoubleQuotes(Tail(f))

\* Variant: fields written without quoting.
CsvFieldUnquoted(f) == f

CsvField(f) == IF NeedsQuote(f) THEN <<"\"">> \o DoubleQuotes(f) \o <<"\"">> ELSE f

RECURSIVE JoinFields(_)
JoinFields(fs) ==
    IF fs = <<>> THEN <<>>
    ELSE IF Len(fs) = 1 THEN CsvField(fs[1])
    ELSE CsvField(fs[1]) \o <<",">> \o JoinFields(Tail(fs))

\* writer.writerow: the joined fields and the line terminator "\r\n".
CsvRow(fs) == JoinFields(fs) \o <<"\r", "\n">>

RECURSIVE CsvRows(_)
CsvRows(rows) == IF rows = <<>> THEN <<>> ELSE CsvRow(rows[1]) \o CsvRows(Tail(rows))

HeaderFields ==
    << <<"i","d">>, <<"t","i","t","l","e">>,
       <<"d","e","s","c","r","i","p","t","i","o","n">>,
       <<"d","u","e","_","d","a","t","e">>,
       <<"p","r","i","o","r","i","t","y">>,
       <<"c","o","m","p","l","e","t","e","d">>,
       <<"c","r","e","a","t","e","d","_","a","t">> >>

\* A fetched row as csv.writer sees it: integers through str().
RowFields(r) == << IntToText(r.id), r.title, r.description, r.due_date,
                   r.priority, IntToText(r.completed), r.created_at >>

\* The text export_tasks_csv writes for the fetched rows.
CsvText(rows) == CsvRow(HeaderFields) \o CsvRows([i \in DOMAIN rows |-> RowFields(rows[i])])

(* ----------------------------- TaskDialog ------------------------------ *)

RECURSIVE TextToInt(_)
TextToInt(s) == IF s = <<>> THEN 0
                ELSE 10 * TextToInt(SubSeq(s, 1, Len(s) - 1)) + (IndexIn(s[Len(s)], Digits) - 1)

AllDigits(s) == \A i \in DOMAIN s : IsDigit(s[i])

IsLeap(y) == (y % 4 = 0 /\ y % 100 # 0) \/ y % 400 = 0

DaysIn(y, m) == IF m = 2 THEN (IF IsLeap(y) THEN 29 ELSE 28)
                ELSE IF m \in {4, 6, 9, 11} THEN 30 ELSE 31

\* datetime.strptime(due, "%Y-%m-%d") succeeds: four digits, a month of one
\* or two digits, a day of one or two digits (or a space and a digit), the
\* whole text consumed, and the three numbers a date of the calendar.
StrptimeOk(s) ==
    \E i, j \in DOMAIN s :
        /\ i < j /\ s[i] = "-" /\ s[j] = "-"
        /\ LET y == SubSeq(s, 1, i - 1)
               m == SubSeq(s, i + 1, j - 1)
               d0 == SubSeq(s, j + 1, Len(s))
               d == IF Len(d0) = 2 /\ d0[1] = " " THEN Tail(d0) ELSE d0
           IN /\ Len(y) = 4 /\ AllDigits(y) /\ TextToInt(y) >= 1
              /\ Len(m) \in {1, 2} /\ AllDigits(m)
              /\ TextToInt(m) \in 1..12
              /\ Len(d) \in {1, 2} /\ AllDigits(d)
              /\ TextToInt(d) \in 1..DaysIn(TextToInt(y), TextToInt(m))

\* Variant: validate without the "Title is required" check.
ValidateDueDateOnly(raw) ==
    Strip(raw.due_date) # <<>> => StrptimeOk(Strip(raw.due_date))

\* TaskDialog.validate on the texts typed into the dialog.
Validate(raw) ==
    /\ Strip(raw.title) # <<>>
    /\ Strip(raw.due_date) # <<>> => StrptimeOk(Strip(raw.due_date))

\* TaskDialog.apply: the result handed to add_task_db.
Apply(raw) == [title |-> Strip(raw.title),
               description |-> Strip(raw.description),
               due_date |-> Strip(raw.due_date),
               priority |-> raw.priority]

\* What a user may type into the Add Task dialog before pressing OK (the
\* description is a Text widget, whose content ends with a newline).
DialogInputs ==
    { [title |-> <<" ","A","b"," ">>, description |-> <<"\n">>,
       due_date |-> <<>>, priority |-> Low],
      [title |-> <<"c">>, description |-> <<"x",",","\"","\n","b","\n">>,
       due_date |-> <<" ">> \o Date1, priority |-> High],
      [title |-> <<" ">>, description |-> <<"x","\n">>, due_date |-> <<>>,
       priority |-> Low],
      [title |-> <<>>, description |-> <<"\n">>, due_date |-> Date1,
       priority |-> Medium],
      [title |-> <<"c">>, description |-> <<"\n">>,
       due_date |-> <<"2","0","2","5","-","0","2","-","3","0">>,
       priority |-> High] }

\* self.sort_by and self.sort_order as TaskManagerApp.__init__ sets them
\* (sort_column, which changes them, is not part of this model).
AppSortBy == "id"
AppSortOrder == ASC

(* ------------------------------- state -------------------------------- *)

NoInput == [title |-> <<>>, description |-> <<>>, due_date |-> <<>>,
            priority |-> <<>>]

\* `last` describes the call that has just returned or raised: the function,
\* its arguments, the storage outcome injected, what it raised, the state of
\* the connection it opened, and what it returned or wrote.
Idle == [op |-> "main", id |-> 0, in |-> NoInput, completed |-> 0,
         now |-> <<>>, filter_text |-> <<>>, sort_by |-> "id", order |-> ASC,
         ok |-> FALSE, fault |-> "none", raised |-> "none", conn |-> "none",
         rowcount |-> 0,
         column |-> "", direction |-> <<>>, rows |-> <<>>,
         written |-> FALSE, file |-> <<>>]

\* What a function raises for a storage outcome.
Raised(fault) == IF fault = "none" THEN "none" ELSE "OperationalError"

\* The connection of a call when control leaves the function:
\* conn.close() is the last statement of each function, reached only when
\* nothing before it raised.
ConnAfter(fault) ==
    CASE fault = "none" -> "closed"
      [] fault = "connect" -> "none"
      [] fault = "execute" -> "open"

\* The history after a call that took the table from `before` to `after`
\* and assigned the ids of the sequence `newIds`.
Logged(h, before, after, newIds) ==
    [issued |-> h.issued \o newIds,
     removed |-> h.removed \cup (Ids(before) \ Ids(after))]

Init ==
    /\ tasks = {}
    /\ seq = 0
    /\ last = Idle
    /\ history = [issued |-> <<>>, removed |-> {}]

(* ------------------------------ actions ------------------------------- *)

init_db(fault) ==
    /\ last' = [Idle EXCEPT !.op = "init_db", !.fault = fault,
                            !.raised = Raised(fault), !.conn = ConnAfter(fault)]
    /\ UNCHANGED <<tasks, seq, history>>

add_task_db(in, now, fault) ==
    /\ tasks' = IF fault = "none" THEN InsertRow(tasks, seq, in, now) ELSE tasks
    /\ seq' = IF fault = "none" THEN NextRowid(tasks, seq) ELSE seq
    /\ last' = [Idle EXCEPT !.op = "add_task_db", !.in = in, !.now = now,
                            !.id = IF fault = "none" THEN NextRowid(tasks, seq) ELSE 0,
                            !.fault = fault, !.raised = Raised(fault),
                            !.conn = ConnAfter(fault),
                            !.rowcount = IF fault = "none" THEN 1 ELSE 0]
    /\ history' = Logged(history, tasks, tasks',
                         IF fault = "none" THEN <<NextRowid(tasks, seq)>> ELSE <<>>)

update_task_db(id, in, completed, fault) ==
    /\ tasks' = IF fault = "none" THEN UpdateRows(tasks, id, in, completed) ELSE tasks
    /\ last' = [Idle EXCEPT !.op = "update_task_db", !.id = id, !.in = in,
                            !.completed = completed, !.fault = fault,
                            !.raised = Raised(fault), !.conn = ConnAfter(fault),
                            !.rowcount = IF fault = "none"
                                         THEN Cardinality({r \in tasks : r.id = id})
                                         ELSE 0]
    /\ history' = Logged(history, tasks, tasks', <<>>)
    /\ UNCHANGED seq

delete_task_db(id, fault) ==
    /\ tasks' = IF fault = "none" THEN DeleteRows(tasks, id) ELSE tasks
    /\ last' = [Idle EXCEPT !.op = "delete_task_db", !.id = id, !.fault = fault,
                            !.raised = Raised(fault), !.conn = ConnAfter(fault),
                            !.rowcount = Cardinality(tasks) - Cardinality(tasks')]
    /\ history' = Logged(history, tasks, tasks', <<>>)
    /\ UNCHANGED seq

clear_completed_db(fault) ==
    /\ tasks' = IF fault = "none" THEN DeleteCompleted(tasks) ELSE tasks
    /\ last' = [Idle EXCEPT !.op = "clear_completed_db", !.fault = fault,
                            !.raised = Raised(fault), !.conn = ConnAfter(fault),
                            !.rowcount = Cardinality(tasks) - Cardinality(tasks')]
    /\ history' = Logged(history, tasks, tasks', <<>>)
    /\ UNCHANGED seq

\* The outcome of fetch_tasks_db on table ts as a record of the fields of
\* `last` it decides; the statement fails when the storage does or when the
\* text put after ORDER BY is not accepted.
FetchFault(sort_by, order, fault) ==
    IF fault = "none" /\ ~OrderParses(SortColumn(sort_by), OrderToken(order))
    THEN "execute" ELSE fault

FetchOutcomes(ts, filter_text, sort_by, order, fault) ==
    LET col == SortColumn(sort_by)
        token == OrderToken(order)
        f == FetchFault(sort_by, order, fault)
    IN { [raised |-> Raised(f), conn |-> ConnAfter(f),
          column |-> IF f = "connect" THEN "" ELSE col,
          direction |-> IF f = "connect" THEN <<>> ELSE token,
          rows |-> rows] :
         rows \in IF f = "none"
                  THEN Ordered(Selected(ts, filter_text), col, token)
                  ELSE {<<>>} }

fetch_tasks_db(filter_text, sort_by, order, fault) ==
    /\ \E out \in FetchOutcomes(tasks, filter_text, sort_by, order, fault) :
         last' = [Idle EXCEPT !.op = "fetch_tasks_db",
                             !.filter_text = filter_text, !.sort_by = sort_by,
                             !.order = order, !.fault = fault,
                             !.raised = out.raised, !.conn = out.conn,
                             !.column = out.column, !.direction = out.direction,
                             !.rows = out.rows]
    /\ UNCHANGED <<tasks, seq, history>>

\* export_tasks_csv: fetch with the default arguments, then open the
\* destination for writing (which may fail) and write header and rows.
export_tasks_csv(fault, openFails) ==
    /\ \E out \in FetchOutcomes(tasks, <<>>, "id", ASC, fault) :
         last' = [Idle EXCEPT !.op = "export_tasks_csv", !.fault = fault,
                             !.raised = IF out.raised # "none" THEN out.raised
                                        ELSE IF openFails THEN "OSError"
                                        ELSE "none",
                             !.conn = out.conn,
                             !.column = out.column, !.direction = out.direction,
                             !.rows = out.rows,
                             !.written = out.raised = "none" /\ ~openFails,
                             !.file = IF out.raised = "none" /\ ~openFails
                                      THEN CsvText(out.rows) ELSE <<>>]
    /\ UNCHANGED <<tasks, seq, history>>

\* TaskManagerApp.add_task: the dialog (cancelled, or closed with OK once
\* validate accepts the texts), then add_task_db and refresh_tasks.
add_task(raw, ok, now, fault) ==
    IF ok /\ Validate(raw)
    THEN /\ tasks' = IF fault = "none" THEN InsertRow(tasks, seq, Apply(raw), now)
                      ELSE tasks
         /\ seq' = IF fault = "none" THEN NextRowid(tasks, seq) ELSE seq
         /\ \E out \in FetchOutcomes(tasks', <<>>, AppSortBy, AppSortOrder, "none") :
              last' = [Idle EXCEPT !.op = "add_task", !.in = raw, !.now = now,
                                  !.ok = ok,
                                  !.id = IF fault = "none" THEN NextRowid(tasks, seq) ELSE 0,
                                  !.fault = fault, !.raised = Raised(fault),
                                  !.conn = ConnAfter(fault),
                                  !.rowcount = IF fault = "none" THEN 1 ELSE 0,
                                  !.rows = IF fault = "none" THEN out.rows ELSE <<>>]
         /\ history' = Logged(history, tasks, tasks',
                              IF fault = "none" THEN <<NextRowid(tasks, seq)>> ELSE <<>>)
    ELSE /\ last' = [Idle EXCEPT !.op = "add_task", !.in = raw, !.ok = ok]
         /\ UNCHANGED <<tasks, seq, history>>

(* ------------------------------- inputs ------------------------------- *)

\* Ids passed to update and delete: every id the store can hold, and one more.
IdInputs == 1..(MaxSeq + 1)

FilterInputs == { <<>>, <<"a">>, <<"a","_","b">>, <<"%">> }

SortByInputs == {"id", "title", "priority", "completed", "created_at", "bogus"}

OrderInputs == { ASC, DESC, <<"d","e","s","c">>, <<"u","p">>,
                 <<"a", LongS, "c">> }

\* The argument tuples used where calls follow one another.
LifecycleInputs == { in \in TaskInputs : in.title # <<>> }

\* Inserts stop once the AUTOINCREMENT counter has reached MaxSeq.
Room == NextRowid(tasks, seq) <= MaxSeq

Next ==
    \/ init_db("none")
    \/ Room /\ \E in \in LifecycleInputs, now \in Instants : add_task_db(in, now, "none")
    \/ \E id \in IdInputs, in \in LifecycleInputs, c \in CompletedInputs :
         update_task_db(id, in, c, "none")
    \/ \E id \in IdInputs : delete_task_db(id, "none")
    \/ clear_completed_db("none")
    \/ fetch_tasks_db(<<>>, "id", ASC, "none")
    \/ \E openFails \in BOOLEAN : export_tasks_csv("none", openFails)
    \/ Room /\ \E raw \in DialogInputs, ok \in BOOLEAN, now \in Instants :
                  add_task(raw, ok, now, "none")

\* The record store driven through its functions and the Add Task dialog,
\* call after call, on storage that works.
Spec == Init /\ [][Next]_vars

(* --------------------------- one call, any table ----------------------- *)

RowValues == { [in |-> in, completed |-> c, created_at |-> t] :
               in \in TaskInputs, c \in {0, 1}, t \in Instants }

\* Every table of at most MaxRows rows the store functions can build: ids
\* are distinct, completed is 0 or 1.
Tables ==
    UNION { { { [id |-> i, title |-> v[i].in.title,
                 description |-> v[i].in.description,
                 due_date |-> v[i].in.due_date, priority |-> v[i].in.priority,
                 completed |-> v[i].completed, created_at |-> v[i].created_at] :
                i \in I } : v \in [I -> RowValues] } :
            I \in SUBSET (1..MaxRows) }

\* A table, with the AUTOINCREMENT counter at or above its largest id.
TableInit ==
    /\ tasks \in Tables
    /\ seq \in MaxOf(Ids(tasks))..MaxRows
    /\ last = Idle
    /\ history = [issued |-> [i \in 1..seq |-> i],
                  removed |-> (1..seq) \ Ids(tasks)]

RowIdInputs == 1..(MaxRows + 1)

\* No call has been made yet.
Fresh == last.op = "main"

\* One call of a store function or of the Add Task action, on any table and
\* with any storage outcome.
CallNext ==
    \/ Fresh /\ \E f \in Faults : init_db(f)
    \/ Fresh /\ \E in \in TaskInputs, now \in Instants, f \in Faults :
                   add_task_db(in, now, f)
    \/ Fresh /\ \E id \in RowIdInputs, in \in TaskInputs, c \in CompletedInputs,
                    f \in Faults : update_task_db(id, in, c, f)
    \/ Fresh /\ \E id \in RowIdInputs, f \in Faults : delete_task_db(id, f)
    \/ Fresh /\ \E f \in Faults : clear_completed_db(f)
    \/ Fresh /\ \E f \in Faults : fetch_tasks_db(<<>>, "id", ASC, f)
    \/ Fresh /\ \E f \in Faults, openFails \in BOOLEAN : export_tasks_csv(f, openFails)
    \/ Fresh /\ \E raw \in DialogInputs, ok \in BOOLEAN, now \in Instants,
                    f \in Faults : add_task(raw, ok, now, f)

CallSpec == TableInit /\ [][CallNext]_vars

\* One query or one export, on any table and with any arguments.
QueryNext ==
    \/ Fresh /\ \E ft \in FilterInputs, sb \in SortByInputs, o \in OrderInputs :
                   fetch_tasks_db(ft, sb, o, "none")
    \/ Fresh /\ \E openFails \in BOOLEAN : export_tasks_csv("none", openFails)

QueryInit == TableInit /\ seq = MaxOf(Ids(tasks))

QuerySpec == QueryInit /\ [][QueryNext]_vars

(* ======================= properties of the store ====================== *)

Row(ts, id) == CHOOSE r \in ts : r.id = id

Range(s) == { s[i] : i \in DOMAIN s }

StorageCalls == {"init_db", "add_task_db", "update_task_db", "delete_task_db",
                 "fetch_tasks_db", "clear_completed_db"}

\* C1: ids are never reused. The ids assigned by successive inserts are
\* strictly increasing, whatever was deleted or cleared in between; a row of
\* the table always carries an id that was assigned and not removed since;
\* and no list() returns a row whose id has been removed.
C1_IdsNeverReused ==
    /\ \A i, j \in DOMAIN history.issued :
           i < j => history.issued[i] < history.issued[j]
    /\ Ids(tasks) \subseteq Range(history.issued)
    /\ Ids(tasks) \cap history.removed = {}
    /\ last.op = "fetch_tasks_db" =>
           \A k \in DOMAIN last.rows : last.rows[k].id \notin history.removed

\* An insert has succeeded after an id was removed, and a later list() has
\* returned the rows.
C1_Witness ==
    /\ history.removed # {}
    /\ Len(history.issued) > Cardinality(history.removed)
    /\ \E i \in history.removed : history.issued[Len(history.issued)] > i
    /\ last.op = "fetch_tasks_db" /\ last.rows # <<>>

\* C4: update(id, ...) and delete(id) with an id that is not in the store
\* raise nothing and leave the store as it was; so does a delete(id) that
\* follows the delete of the same id.
C4_AbsentIdIsNoOp ==
    [][ (last'.op \in {"update_task_db", "delete_task_db"}
         /\ last'.id \notin Ids(tasks))
        => (last'.raised = "none" /\ tasks' = tasks /\ seq' = seq) ]_vars

\* A delete of an id removed earlier found no row, and an update of an id
\* the store never assigned found none either, on a store that holds rows.
C4_Witness ==
    /\ tasks # {}
    /\ last.rowcount = 0 /\ last.raised = "none"
    /\ \/ last.op = "delete_task_db" /\ last.id \in history.removed
       \/ last.op = "update_task_db" /\ last.id \notin Range(history.issued)

\* C8: in every state reached through inserts, updates and deletes,
\* clear_completed() leaves exactly the rows whose completed was false
\* (stored as 0), each unchanged, and removes every other row.
C8_ClearRemovesExactlyCompleted ==
    [][ last'.op = "clear_completed_db"
        => tasks' = { r \in tasks : r.completed = 0 } ]_vars

\* clear_completed() has removed a row and kept another.
C8_Witness ==
    /\ last.op = "clear_completed_db"
    /\ last.rowcount >= 1
    /\ tasks # {}

(* ====================== properties of a single call =================== *)

\* C2 as stated: insert with an empty title raises ValidationError and
\* persists nothing.
C2_InsertRejectsEmptyTitle ==
    [][ (last'.op = "add_task_db" /\ last'.in.title = <<>> /\ last'.fault = "none")
        => (last'.raised = "ValidationError" /\ tasks' = tasks) ]_vars

\* C2 as the code has it: add_task_db validates nothing and stores the row
\* with its empty title; the check is the caller's. The Add Task action,
\* given a title that is empty once stripped, calls no store function and
\* leaves the store as it was.
C2_DialogRejectsEmptyTitle ==
    [][ /\ (last'.op = "add_task_db" /\ last'.in.title = <<>> /\ last'.fault = "none")
           => (last'.raised = "none"
               /\ \E r \in tasks' \ tasks : r.title = <<>> /\ r.id = last'.id)
        /\ (last'.op = "add_task" /\ Strip(last'.in.title) = <<>>)
           => (tasks' = tasks /\ seq' = seq
               /\ last'.conn = "none" /\ last'.raised = "none") ]_vars

\* OK was pressed in the Add Task dialog with a title of blanks, on a store
\* that holds rows.
C2_Witness ==
    /\ last.op = "add_task" /\ last.ok
    /\ last.in.title # <<>> /\ Strip(last.in.title) = <<>>
    /\ tasks # {}

\* C3: after update(id, ...) of a row in the store, list() shows that row
\* with the new title, description, due_date and priority and the truth
\* value of the new completed, with the id and created_at it had, and shows
\* every other row as it was.
C3_UpdateReplacesMutableFields ==
    [][ (last'.op = "update_task_db" /\ last'.fault = "none"
         /\ last'.id \in Ids(tasks))
        => \A out \in FetchOutcomes(tasks', <<>>, "id", ASC, "none") :
             /\ Len(out.rows) = Cardinality(tasks)
             /\ \E k \in DOMAIN out.rows :
                   out.rows[k] =
                     [id |-> last'.id,
                      title |-> last'.in.title,
                      description |-> last'.in.description,
                      due_date |-> last'.in.due_date,
                      priority |-> last'.in.priority,
                      completed |-> IF last'.completed = 0 THEN 0 ELSE 1,
                      created_at |-> Row(tasks, last'.id).created_at]
             /\ \A r \in tasks : r.id # last'.id =>
                   \E k \in DOMAIN out.rows : out.rows[k] = r ]_vars

\* An update has changed one row of a store of two; the other row has
\* another title and another created_at.
C3_Witness ==
    /\ last.op = "update_task_db" /\ last.fault = "none" /\ last.rowcount = 1
    /\ last.completed = 2
    /\ \E r \in tasks : /\ r.id # last.id
                         /\ r.title # last.in.title
                         /\ r.created_at # Row(tasks, last.id).created_at

\* C10: when a store function has returned or raised, the connection it
\* opened is closed, and a storage failure has reached the caller.
C10_ConnectionReleasedOnEveryPath ==
    last.op \in StorageCalls =>
        /\ last.conn # "open"
        /\ last.fault # "none" => last.raised = "OperationalError"

(* ========================= properties of queries ====================== *)

\* s holds sub as a run of consecutive characters, letter case aside.
ContainsIgnoringCase(s, sub) ==
    \E i \in 0..(Len(s) - Len(sub)) :
        SqliteUpper(SubSeq(s, i + 1, i + Len(sub))) = SqliteUpper(sub)

\* C5: list(filter_text) returns exactly the rows whose title or
\* description holds filter_text as a literal substring, letter case aside.
C5_FilterIsLiteralSubstring ==
    (last.op = "fetch_tasks_db" /\ last.filter_text # <<>> /\ last.raised = "none")
    => Range(last.rows) =
         { r \in tasks : \/ ContainsIgnoringCase(r.title, last.filter_text)
                          \/ ContainsIgnoringCase(r.description, last.filter_text) }

\* The declared order of the priority enumeration: Low < Medium < High.
PriorityRank(p) == CASE p = Low -> 1 [] p = Medium -> 2 [] p = High -> 3

\* C6: list(sort_by="priority") returns the rows in the enumeration order of
\* priority, non-decreasing under ASC and non-increasing under DESC.
C6_PriorityInEnumerationOrder ==
    (last.op = "fetch_tasks_db" /\ last.sort_by = "priority"
     /\ last.order \in {ASC, DESC} /\ last.raised = "none")
    => \A i, j \in DOMAIN last.rows : i < j =>
         IF last.order = DESC
         THEN PriorityRank(last.rows[i].priority) >= PriorityRank(last.rows[j].priority)
         ELSE PriorityRank(last.rows[i].priority) <= PriorityRank(last.rows[j].priority)

PlainOrder(order) ==
    SqliteUpper(order) \in {ASC, DESC} \/ PyUpper(order) \notin {ASC, DESC}

Nth(S, k) == CHOOSE x \in S : Cardinality({ y \in S : y <= x }) = k

\* The members of a set of integers in ascending order.
Ascending(S) == [k \in 1..Cardinality(S) |-> Nth(S, k)]

\* Position i of text t lies inside a quoted field: an odd number of quote
\* characters precedes it.
InsideQuotes(t, i) == Cardinality({ k \in 1..(i - 1) : t[k] = "\"" }) % 2 = 1

\* A field as csv.reader returns it: a quoted field loses its enclosing
\* quotes and the second quote of every doubled one.
CsvUnquote(f) ==
    IF f # <<>> /\ f[1] = "\""
    THEN LET keep == { k \in 2..(Len(f) - 1) : ~(f[k] = "\"" /\ InsideQuotes(f, k)) }
         IN [n \in 1..Cardinality(keep) |-> f[Nth(keep, n)]]
    ELSE f

\* The pieces of t[from..to] between the positions of `cuts`, in order.
Pieces(t, from, to, cuts) ==
    LET at == Ascending(cuts)
        n == Len(at)
    IN [k \in 1..(n + 1) |->
          SubSeq(t, IF k = 1 THEN from ELSE at[k - 1] + 1,
                    IF k = n + 1 THEN to ELSE at[k] - 1)]

\* csv.reader on a text written with "\r\n" line ends: the records end at
\* the line ends outside quotes, the fields at the commas outside quotes.
CsvRead(t) ==
    LET ends == { i \in DOMAIN t : t[i] = "\n" /\ ~InsideQuotes(t, i) }
        stop == Ascending(ends)
    IN [k \in DOMAIN stop |->
          LET from == IF k = 1 THEN 1 ELSE stop[k - 1] + 1
              to == IF stop[k] > from /\ t[stop[k] - 1] = "\r"
                    THEN stop[k] - 2 ELSE stop[k] - 1
              commas == { i \in from..to : t[i] = "," /\ ~InsideQuotes(t, i) }
              raw == Pieces(t, from, to, commas)
          IN [m \in DOMAIN raw |-> CsvUnquote(raw[m])]]

\* The rows of a table by ascending id.
RECURSIVE ByIdAscending(_)
ByIdAscending(ts) ==
    IF ts = {} THEN <<>>
    ELSE LET first == CHOOSE r \in ts : \A q \in ts : r.id <= q.id
         IN <<first>> \o ByIdAscending(ts \ {first})

\* C9: export leaves the store as it was, and the file it writes reads
\* back as the header row followed by one row per record, by ascending id,
\* whose fields are the record's, with id and completed in decimal.
C9_ExportRoundTrip ==
    [][ last'.op = "export_tasks_csv"
        => /\ tasks' = tasks
           /\ last'.written =>
                CsvRead(last'.file) =
                  <<HeaderFields>> \o
                  [k \in 1..Cardinality(tasks) |->
                     LET r == ByIdAscending(tasks)[k]
                     IN << IntToText(r.id), r.title, r.description, r.due_date,
                           r.priority,
                           IF r.completed = 0 THEN <<"0">> ELSE <<"1">>,
                           r.created_at >>] ]_vars

\* A store of two rows, one of them with a description that holds a comma,
\* a quote and a line break, has been exported.
C9_Witness ==
    /\ last.op = "export_tasks_csv" /\ last.written
    /\ Cardinality(tasks) = 2
    /\ \E r \in tasks : NeedsQuote(r.description)
    /\ \E r \in tasks : r.completed = 1

====
